---- MODULE Spec2Model ----
(***************************************************************************)
(* Statement comparison of src/src/steps/consistent.js: correctObjectTypes, *)
(* compareStatements, assertStatementMatch and assertStatementNoMatch.      *)
(*                                                                         *)
(* A record tree (a parsed JSON value) is a function from paths to node     *)
(* values.  A path is a sequence of property names (array indices are the   *)
(* names "0", "1", ...); a node value is a sequence of tokens:              *)
(*   <<"{}">> a mapping, <<"[]">> a sequence, <<"null">>, and               *)
(*   <<"str", t1, ..., tn>> the string whose text is t1 ... tn.             *)
(* The JavaScript value undefined is the function with the empty domain.    *)
(***************************************************************************)
EXTENDS Integers, Sequences, FiniteSets, TLC

VARIABLES actual, expected, cfg, context, utcOffset, matchRun, noMatchRun

vars == <<actual, expected, cfg, context, utcOffset, matchRun, noMatchRun>>

(***************************************************************************)
(* Bounds of the model.                                                    *)
(***************************************************************************)
\* the longest member / contextActivities sequence of an input statement
MaxMembers == 2

(***************************************************************************)
(* Record trees.                                                           *)
(***************************************************************************)
Obj == <<"{}">>
Arr == <<"[]">>
Null == <<"null">>
Str(s) == <<"str", s>>

undefined == <<>>

IsPrefix(p, q) == Len(p) <= Len(q) /\ SubSeq(q, 1, Len(p)) = p

\* the value at path p of tree t (undefined when t has no such path)
Sub(t, p) ==
    IF p \notin DOMAIN t THEN undefined
    ELSE [q \in {SubSeq(r, Len(p) + 1, Len(r)) : r \in {r \in DOMAIN t : IsPrefix(p, r)}}
            |-> t[p \o q]]

\* delete t.p
Delete(t, p) == [q \in {q \in DOMAIN t : ~IsPrefix(p, q)} |-> t[q]]

\* t.p = v, for a tree v
Put(t, p, v) ==
    [q \in {q \in DOMAIN t : ~IsPrefix(p, q)} \cup {p \o r : r \in DOMAIN v}
        |-> IF IsPrefix(p, q) THEN v[SubSeq(q, Len(p) + 1, Len(q))] ELSE t[q]]

Leaf(v) == [q \in {<<>>} |-> v]

IdxName == <<"0", "1", "2", "3", "4">>
Idx(i) == IdxName[i + 1]

IsNullish(x) == x = undefined \/ x[<<>>] = Null
Truthy(x) == ~IsNullish(x)
IsArray(x) == x # undefined /\ x[<<>>] = Arr
IsPrimitive(x) == x # undefined /\ Head(x[<<>>]) = "str"
ArrayLength(x) == Cardinality({i \in 1..Len(IdxName) : <<IdxName[i]>> \in DOMAIN x})

\* typeof x.objectType !== "undefined", for x neither null nor undefined
HasObjectType(x) == <<"objectType">> \in DOMAIN x

(***************************************************************************)
(* selectn(location, tree): the value at a dotted location, undefined as   *)
(* soon as a segment is missing.  Locations are kept as split paths.        *)
(***************************************************************************)
selectn(location, tree) == IF tree = undefined THEN undefined ELSE Sub(tree, location)

objectTypeLocations ==
    << <<"actor">>,
       <<"object">>,
       <<"context", "instructor">>,
       <<"context", "team">>,
       <<"context", "statement">> >>

objectTypeLocationsMultiple ==
    << <<"actor", "member">>,
       <<"context", "instructor", "member">>,
       <<"context", "team", "member">>,
       <<"context", "contextActivities", "category">>,
       <<"context", "contextActivities", "parent">>,
       <<"context", "contextActivities", "grouping">>,
       <<"context", "contextActivities", "other">> >>

(***************************************************************************)
(* correctObjectTypes.  The state threaded through both loops is           *)
(* [expected, error]; a TypeError ends the call with the changes made so    *)
(* far left in expected (it is mutated in place).                          *)
(***************************************************************************)
\* a variant that never copies an objectType at a single-valued location
CorrectSingleNoCopy(location, act, st) ==
    LET actualSubObj == selectn(location, act)
        expectedSubObj == selectn(location, st.expected)
    IN  IF Truthy(expectedSubObj) /\ IsNullish(actualSubObj)
        THEN [st EXCEPT !.error = "TypeError"]
        ELSE st

\* the body of the first forEach, for one location
CorrectSingle(location, act, st) ==
    LET actualSubObj == selectn(location, act)
        expectedSubObj == selectn(location, st.expected)
    IN  IF ~Truthy(expectedSubObj) THEN st
        ELSE IF IsNullish(actualSubObj) THEN [st EXCEPT !.error = "TypeError"]
        ELSE IF HasObjectType(actualSubObj) /\ ~HasObjectType(expectedSubObj)
             THEN IF IsPrimitive(expectedSubObj)
                  THEN [st EXCEPT !.error = "TypeError"]
                  ELSE [st EXCEPT !.expected =
                            Put(st.expected, location \o <<"objectType">>,
                                Sub(actualSubObj, <<"objectType">>))]
        ELSE st

\* the callback of actualSubObj.forEach, for element i of one location
CorrectElement(location, i, act, st) ==
    LET v == selectn(location \o <<Idx(i)>>, act)
        expectedSubObj == selectn(location, st.expected)
        e == IF IsPrimitive(expectedSubObj) THEN undefined
             ELSE Sub(expectedSubObj, <<Idx(i)>>)
    IN  IF IsNullish(v) THEN [st EXCEPT !.error = "TypeError"]
        ELSE IF ~HasObjectType(v) THEN st
        ELSE IF IsNullish(e) \/ IsPrimitive(expectedSubObj)
             THEN [st EXCEPT !.error = "TypeError"]
        ELSE IF HasObjectType(e) THEN st
        ELSE IF IsPrimitive(e) THEN [st EXCEPT !.error = "TypeError"]
        ELSE [st EXCEPT !.expected =
                  Put(st.expected, location \o <<Idx(i), "objectType">>,
                      Sub(v, <<"objectType">>))]

RECURSIVE CorrectElements(_, _, _, _, _)
CorrectElements(location, i, n, act, st) ==
    IF i >= n \/ st.error # "none" THEN st
    ELSE CorrectElements(location, i + 1, n, act, CorrectElement(location, i, act, st))

\* the body of the second forEach, for one location
CorrectMultiple(location, act, st) ==
    LET actualSubObj == selectn(location, act)
        expectedSubObj == selectn(location, st.expected)
    IN  IF ~Truthy(expectedSubObj) \/ ~IsArray(actualSubObj) THEN st
        ELSE CorrectElements(location, 0, ArrayLength(actualSubObj), act, st)

RECURSIVE ForEachSingle(_, _, _)
ForEachSingle(k, act, st) ==
    IF k > Len(objectTypeLocations) \/ st.error # "none" THEN st
    ELSE ForEachSingle(k + 1, act, CorrectSingle(objectTypeLocations[k], act, st))

RECURSIVE ForEachMultiple(_, _, _)
ForEachMultiple(k, act, st) ==
    IF k > Len(objectTypeLocationsMultiple) \/ st.error # "none" THEN st
    ELSE ForEachMultiple(k + 1, act,
                         CorrectMultiple(objectTypeLocationsMultiple[k], act, st))

correctObjectTypes(act, exp) ==
    ForEachMultiple(1, act, ForEachSingle(1, act, [expected |-> exp, error |-> "none"]))

(***************************************************************************)
(* Timestamps.  The text of a timestamp is its token sequence, e.g.        *)
(* <<"2020","-","01","-","01","T","10",":","00","+","05">>.                *)
(***************************************************************************)
Num == ("00" :> 0) @@ ("01" :> 1) @@ ("02" :> 2) @@ ("05" :> 5) @@ ("09" :> 9)
       @@ ("10" :> 10) @@ ("23" :> 23) @@ ("30" :> 30)
TwoDigits == DOMAIN Num
Sign == ("+" :> 1) @@ ("-" :> -1)

Text(x) == IF IsPrimitive(x) THEN Tail(x[<<>>]) ELSE <<"?">>

\* /[-+]\d\d$/.test(text)
TwoDigitOffsetRe(text) ==
    /\ Len(text) >= 2
    /\ text[Len(text)] \in TwoDigits
    /\ text[Len(text) - 1] \in DOMAIN Sign

\* moment(text, moment.ISO_8601): the set holding the instant in minutes
\* (counted from the start of the month, UTC), empty for an invalid moment.
\* A text without an offset is local time, offset minutes ahead of UTC.
ParseOffset(off, offset) ==
    IF off = <<>> THEN {offset}
    ELSE IF off = <<"Z">> THEN {0}
    ELSE IF Len(off) = 2 /\ off[1] \in DOMAIN Sign /\ off[2] \in TwoDigits
         THEN {Sign[off[1]] * Num[off[2]] * 60}
    ELSE IF Len(off) = 4 /\ off[1] \in DOMAIN Sign /\ off[2] \in TwoDigits
            /\ off[3] = ":" /\ off[4] \in TwoDigits
         THEN {Sign[off[1]] * (Num[off[2]] * 60 + Num[off[4]])}
    ELSE {}

moment(text, offset) ==
    IF ~(/\ Len(text) >= 5
         /\ text[1] = "2020" /\ text[2] = "-" /\ text[3] = "01" /\ text[4] = "-"
         /\ text[5] \in TwoDigits)
    THEN {}
    ELSE LET day == Num[text[5]] * 24 * 60
             rest == SubSeq(text, 6, Len(text))
         IN  IF rest = <<>> THEN {day - offset}
             ELSE IF ~(/\ Len(rest) >= 4
                       /\ rest[1] = "T" /\ rest[2] \in TwoDigits
                       /\ rest[3] = ":" /\ rest[4] \in TwoDigits)
                  THEN {}
             ELSE {day + Num[rest[2]] * 60 + Num[rest[4]] - off :
                        off \in ParseOffset(SubSeq(rest, 5, Len(rest)), offset)}

\* a.isSame(b)
isSame(a, b) == a # {} /\ b # {} /\ a = b

(***************************************************************************)
(* compareStatements.  The result is the two trees as the call leaves them *)
(* (both are mutated in place), the error it raised ("none",               *)
(* "AssertionError" or "TypeError") and the calls of correctObjectTypes it  *)
(* made.                                                                   *)
(***************************************************************************)
Result(act, exp, error, calls) ==
    [actual |-> act, expected |-> exp, error |-> error, calls |-> calls]

\* a variant that overwrites the id of the fixture
DefaultIdAlways(exp, ctx) == Put(exp, <<"id">>, Leaf(Str(ctx.scenarioResource.id)))

\* lines 118-120
DefaultId(exp, ctx) ==
    IF <<"id">> \notin DOMAIN exp
    THEN Put(exp, <<"id">>, Leaf(Str(ctx.scenarioResource.id)))
    ELSE exp

\* a variant that sets the version only when the fixture has none
ForceVersionIfAbsent(exp) ==
    IF <<"version">> \in DOMAIN exp THEN exp
    ELSE Put(exp, <<"version">>, Leaf(Str("1.0.0")))

\* line 122
ForceVersion(exp) == Put(exp, <<"version">>, Leaf(Str("1.0.0")))

\* lines 129-130
StripActual(act) == Delete(Delete(act, <<"stored">>), <<"authority">>)

\* lines 132-136
StripExpected(exp, c) ==
    IF c.meaningOnly
    THEN Delete(Delete(Delete(exp, <<"version">>), <<"stored">>), <<"authority">>)
    ELSE exp

\* assert[cfg.assertion](actual, expected), line 173
FinalAssert(act, exp, c, calls) ==
    LET equal == act = exp
        ok == IF c.assertion = "deepEqual" THEN equal ELSE ~equal
    IN  Result(act, exp, IF ok THEN "none" ELSE "AssertionError", calls)

\* lines 165-167: expected.timestamp += ":00" when the text ends in [-+]dd
FixTwoDigitOffset(ts) ==
    IF TwoDigitOffsetRe(Text(ts)) THEN Leaf(ts[<<>>] \o <<":", "00">>) ELSE ts

\* lines 157-173
CheckTimestamp(act, exp, c, offset, calls) ==
    IF <<"timestamp">> \in DOMAIN exp
    THEN LET fixed == FixTwoDigitOffset(Sub(exp, <<"timestamp">>))
             exp1 == Put(exp, <<"timestamp">>, fixed)
         IN  IF isSame(moment(Text(fixed), offset),
                       moment(Text(Sub(act, <<"timestamp">>)), offset))
             THEN FinalAssert(Delete(act, <<"timestamp">>),
                              Delete(exp1, <<"timestamp">>), c, calls)
             ELSE Result(act, exp1, "AssertionError", calls)
    ELSE FinalAssert(Delete(act, <<"timestamp">>), exp, c, calls)

\* lines 148-150
CorrectSubStatement(act, exp, c, offset) ==
    LET object == Sub(act, <<"object">>)
    IN  IF IsNullish(object)
        THEN Result(act, exp, "TypeError", <<"statement">>)
        ELSE IF Sub(object, <<"objectType">>) = Leaf(Str("SubStatement"))
        THEN LET r == correctObjectTypes(object, Sub(exp, <<"object">>))
                 exp1 == IF <<"object">> \in DOMAIN exp
                         THEN Put(exp, <<"object">>, r.expected)
                         ELSE exp
             IN  IF r.error # "none"
                 THEN Result(act, exp1, r.error, <<"statement", "object">>)
                 ELSE CheckTimestamp(act, exp1, c, offset, <<"statement", "object">>)
        ELSE CheckTimestamp(act, exp, c, offset, <<"statement">>)

compareStatements(act, exp, c, ctx, offset) ==
    LET exp1 == StripExpected(ForceVersion(DefaultId(exp, ctx)), c)
        act1 == StripActual(act)
        r == correctObjectTypes(act1, exp1)
    IN  IF r.error # "none"
        THEN Result(act1, r.expected, r.error, <<"statement">>)
        ELSE CorrectSubStatement(act1, r.expected, c, offset)

assertStatementMatch(act, exp, c, ctx, offset) ==
    compareStatements(act, exp,
                      [assertion |-> "deepEqual", meaningOnly |-> c.meaningOnly],
                      ctx, offset)

assertStatementNoMatch(act, exp, c, ctx, offset) ==
    compareStatements(act, exp,
                      [assertion |-> "notDeepEqual", meaningOnly |-> c.meaningOnly],
                      ctx, offset)

(***************************************************************************)
(* Input statements.                                                       *)
(***************************************************************************)
\* t with t.p = v, left alone when v is undefined
Opt(t, p, v) == IF v = undefined THEN t ELSE Put(t, p, v)

Ids == {"s1", "s2"}

Agent(mbox) == Put(Leaf(Obj), <<"mbox">>, Leaf(Str(mbox)))
Activity(id) == Put(Leaf(Obj), <<"id">>, Leaf(Str(id)))

Statement(id, version, stored, authority, timestamp, actor, object, ctxt) ==
    Opt(Opt(Opt(Opt(Opt(Opt(Opt(Opt(Leaf(Obj),
        <<"id">>, id), <<"version">>, version), <<"stored">>, stored),
        <<"authority">>, authority), <<"timestamp">>, timestamp),
        <<"actor">>, actor), <<"object">>, object), <<"context">>, ctxt)

IdOpts == {undefined} \cup {Leaf(Str(i)) : i \in Ids}
VersionOpts == {undefined, Leaf(Str("1.0.0")), Leaf(Str("0.9.5"))}
StoredOpts == {undefined, Leaf(Str("t1")), Leaf(Str("t2"))}
AuthorityOpts == {undefined, Agent("mailto:lrs@b.com")}

\* statements that differ in the fields the LRS sets
FieldStatements ==
    {Statement(id, version, stored, authority, undefined,
               Agent("mailto:a@b.com"), Activity("x"), undefined) :
        id \in IdOpts, version \in VersionOpts, stored \in StoredOpts,
        authority \in AuthorityOpts}

\* the sequence whose elements are the trees elems[1], elems[2], ...
Array(elems) ==
    LET IdxOf(name) == CHOOSE i \in 1..Len(IdxName) : IdxName[i] = name
    IN  [q \in {<<>>} \cup UNION {{<<Idx(i - 1)>> \o r : r \in DOMAIN elems[i]} :
                                     i \in 1..Len(elems)}
            |-> IF q = <<>> THEN Arr ELSE elems[IdxOf(Head(q))][Tail(q)]]

Members == Array([i \in 1..MaxMembers |-> Agent(IdxName[i])])
Activities == Array([i \in 1..MaxMembers |-> Activity(IdxName[i])])
Group(mbox) == Put(Agent(mbox), <<"member">>, Members)

ContextActivities ==
    Put(Put(Put(Put(Leaf(Obj), <<"category">>, Activities), <<"parent">>, Activities),
        <<"grouping">>, Activities), <<"other">>, Activities)

Context ==
    Put(Put(Put(Put(Leaf(Obj), <<"instructor">>, Group("mailto:i@b.com")),
        <<"team">>, Group("mailto:t@b.com")), <<"statement">>, Activity("ref")),
        <<"contextActivities">>, ContextActivities)

\* an edit of a statement: t.path = value, or delete t.path
NoEdit == [op |-> "none", path |-> <<>>, value |-> undefined]
PutEdit(p, v) == [op |-> "put", path |-> p, value |-> v]
DeleteEdit(p) == [op |-> "delete", path |-> p, value |-> undefined]
ApplyEdit(t, e) ==
    IF e.op = "none" \/ SubSeq(e.path, 1, Len(e.path) - 1) \notin DOMAIN t THEN t
    ELSE IF e.op = "put" THEN Put(t, e.path, e.value)
    ELSE Delete(t, e.path)

Range(f) == {f[k] : k \in DOMAIN f}
SinglePaths == Range(objectTypeLocations)
MultiplePaths == Range(objectTypeLocationsMultiple)
ElementPaths == {p \o <<Idx(i)>> : p \in MultiplePaths, i \in 0..(MaxMembers - 1)}
LastElementPaths == {p \o <<Idx(MaxMembers - 1)>> : p \in MultiplePaths}

\* the sub-records correctObjectTypes looks at
KnownPaths == SinglePaths \cup ElementPaths

AddTypeEdits ==
    {NoEdit} \cup {PutEdit(p \o <<"objectType">>, Leaf(Str("Agent"))) : p \in KnownPaths}

ObjectTypeEdits ==
    AddTypeEdits
    \cup {DeleteEdit(p) : p \in SinglePaths \cup MultiplePaths \cup LastElementPaths}
    \cup {PutEdit(p, Leaf(Null)) : p \in SinglePaths \cup LastElementPaths}
    \cup {PutEdit(p, Leaf(Str("text"))) : p \in {<<"actor">>, <<"actor", "member">>}}
    \cup {PutEdit(p, Agent("mailto:solo@b.com")) : p \in MultiplePaths}

\* a statement with every known location filled, and the same without an object
FullStatement ==
    Statement(Leaf(Str("s1")), undefined, undefined, undefined, undefined,
              Group("mailto:a@b.com"), Activity("x"), Context)

NoObjectStatement == Delete(FullStatement, <<"object">>)

Full == [meaningOnly |-> FALSE]
Tracking(i) == [scenarioResource |-> [id |-> i]]

\* the same statement on both sides (the LRS adds version), one edit on each,
\* at least one of the two at most adding an objectType
InitObjectTypes ==
    \E base \in {FullStatement, NoObjectStatement} :
    \E ea \in IF base = FullStatement THEN ObjectTypeEdits ELSE AddTypeEdits,
       ee \in IF base = FullStatement THEN ObjectTypeEdits ELSE AddTypeEdits :
        /\ ea \in AddTypeEdits \/ ee \in AddTypeEdits
        /\ actual = ApplyEdit(Put(base, <<"version">>, Leaf(Str("1.0.0"))), ea)
        /\ expected = ApplyEdit(base, ee)
        /\ cfg = Full
        /\ context = Tracking("s1")
        /\ utcOffset = 0

\* SubStatement objects: the known locations one and two levels down
SubObject ==
    Put(Put(Put(Leaf(Obj), <<"actor">>, Put(Agent("mailto:c@b.com"), <<"member">>,
                                          Array(<<Agent("0")>>))),
        <<"object">>, Put(Activity("y"), <<"actor">>, Agent("mailto:d@b.com"))),
        <<"context">>, Put(Leaf(Obj), <<"instructor">>, Agent("mailto:e@b.com")))

SubPaths ==
    { <<"object", "actor">>, <<"object", "object">>,
      <<"object", "context", "instructor">>, <<"object", "actor", "member", "0">>,
      <<"object", "object", "actor">> }

SubEdits ==
    {NoEdit}
    \cup {PutEdit(p \o <<"objectType">>, Leaf(Str("Agent"))) : p \in SubPaths}
    \cup {DeleteEdit(p) : p \in {<<"object", "actor">>, <<"actor">>}}

ObjectTypeOpts ==
    {undefined, Leaf(Str("SubStatement")), Leaf(Str("Activity"))}

InitSubStatement ==
    \E ta \in ObjectTypeOpts, te \in ObjectTypeOpts, ea \in SubEdits, ee \in SubEdits :
        LET base(type) ==
                Statement(Leaf(Str("s1")), Leaf(Str("1.0.0")), undefined, undefined,
                          undefined, Agent("mailto:a@b.com"),
                          Opt(SubObject, <<"objectType">>, type), undefined)
        IN  /\ actual = ApplyEdit(base(ta), ea)
            /\ expected = ApplyEdit(base(te), ee)
            /\ cfg = Full
            /\ context = Tracking("s1")
            /\ utcOffset = 0

\* timestamps: two instants in several textual forms, a date, and non-dates
Ts(day, hh, off) ==
    Leaf(<<"str", "2020", "-", "01", "-", day, "T", hh, ":", "00">> \o off)

TimestampOpts ==
    { undefined,
      Ts("02", "05", <<"Z">>),
      Ts("02", "10", <<"+", "05">>),
      Ts("02", "10", <<"+", "05", ":", "00">>),
      Ts("02", "00", <<"-", "05">>),
      Ts("02", "00", <<"-", "05", ":", "00">>),
      Ts("02", "05", <<>>),
      Ts("02", "00", <<"Z">>),
      Ts("01", "23", <<"Z">>),
      Leaf(<<"str", "2020", "-", "01", "-", "02">>),
      Leaf(<<"str", "yesterday">>),
      Leaf(Null) }

UtcOffsets == {0, 60}

InitTimestamps ==
    \E ta \in TimestampOpts, te \in TimestampOpts, oa \in {"x", "y"} :
        /\ actual = Statement(Leaf(Str("s1")), Leaf(Str("1.0.0")), undefined, undefined,
                              ta, Agent("mailto:a@b.com"), Activity(oa), undefined)
        /\ expected = Statement(Leaf(Str("s1")), undefined, undefined, undefined,
                                te, Agent("mailto:a@b.com"), Activity("x"), undefined)
        /\ cfg = Full
        /\ context = Tracking("s1")
        /\ utcOffset \in UtcOffsets

\* one record compared with a copy of itself
ReflexiveActors ==
    { Agent("mailto:a@b.com"),
      Put(Agent("mailto:a@b.com"), <<"objectType">>, Leaf(Str("Agent"))),
      Put(Group("mailto:a@b.com"), <<"objectType">>, Leaf(Str("Group"))),
      Put(Group("mailto:a@b.com"), <<"member", "0">>, Leaf(Null)) }

ReflexiveObjects ==
    { undefined, Leaf(Null), Activity("x"),
      Put(SubObject, <<"objectType">>, Leaf(Str("SubStatement"))) }

ReflexiveTimestamps ==
    { undefined,
      Ts("02", "05", <<"Z">>),
      Ts("02", "10", <<"+", "05">>),
      Ts("02", "00", <<"-", "05", ":", "00">>),
      Ts("02", "05", <<>>),
      Leaf(<<"str", "2020", "-", "01", "-", "02">>),
      Leaf(<<"str", "yesterday">>) }

ReflexiveStatements ==
    {Statement(id, version, stored, authority, timestamp, actor, object, undefined) :
        id \in {undefined, Leaf(Str("s1"))}, version \in VersionOpts,
        stored \in {undefined, Leaf(Str("t1"))}, authority \in AuthorityOpts,
        timestamp \in ReflexiveTimestamps, actor \in ReflexiveActors,
        object \in ReflexiveObjects}

InitReflexive ==
    /\ actual \in ReflexiveStatements
    /\ expected = actual
    /\ cfg \in {[meaningOnly |-> b] : b \in BOOLEAN}
    /\ context = Tracking("s1")
    /\ utcOffset = 0

\* the scenario of spec section 8, and the same with the fields the LRS sets
ScenarioExpected ==
    Statement(undefined, undefined, undefined, undefined,
              Ts("01", "00", <<"+", "01">>), Agent("mailto:a@b.com"), Activity("x"),
              undefined)

ScenarioActual(id, version) ==
    Statement(id, version, Leaf(Str("t1")), Agent("mailto:lrs@b.com"),
              Ts("01", "00", <<"+", "01", ":", "00">>),
              Put(Agent("mailto:a@b.com"), <<"objectType">>, Leaf(Str("Agent"))),
              Put(Activity("x"), <<"objectType">>, Leaf(Str("Activity"))),
              undefined)

InitScenario ==
    /\ actual \in {ScenarioActual(id, version) : id \in IdOpts, version \in VersionOpts}
    /\ expected = ScenarioExpected
    /\ cfg = Full
    /\ context \in {Tracking(i) : i \in Ids}
    /\ utcOffset \in UtcOffsets

NotRun == Result(undefined, undefined, "notrun", <<>>)

InitFields ==
    /\ actual \in FieldStatements
    /\ expected \in FieldStatements
    /\ cfg \in {[meaningOnly |-> b] : b \in BOOLEAN}
    /\ context \in {Tracking(i) : i \in Ids}
    /\ utcOffset = 0

Init ==
    /\ \/ InitScenario
       \/ InitTimestamps
       \/ InitFields
       \/ InitReflexive
       \/ InitSubStatement
       \/ InitObjectTypes
    /\ matchRun = NotRun
    /\ noMatchRun = NotRun

(***************************************************************************)
(* The two entry points.  Each call is given fresh copies of the input     *)
(* statements and leaves the trees as it mutated them in its result.       *)
(***************************************************************************)
AssertStatementMatch ==
    /\ matchRun = NotRun
    /\ matchRun' = assertStatementMatch(actual, expected, cfg, context, utcOffset)
    /\ UNCHANGED <<actual, expected, cfg, context, utcOffset, noMatchRun>>

AssertStatementNoMatch ==
    /\ noMatchRun = NotRun
    /\ noMatchRun' = assertStatementNoMatch(actual, expected, cfg, context, utcOffset)
    /\ UNCHANGED <<actual, expected, cfg, context, utcOffset, matchRun>>

Next == AssertStatementMatch \/ AssertStatementNoMatch

Spec == Init /\ [][Next]_vars

(***************************************************************************)
(* Vocabulary of the properties.                                           *)
(***************************************************************************)
Done(run) == run # NotRun
HasField(t, f) == <<f>> \in DOMAIN t
TrackedId == Leaf(Str(context.scenarioResource.id))
TypeAt(p) == p \o <<"objectType">>

\* the trees once id, version, stored, authority and timestamp are dealt with
NormalizedActual == Delete(StripActual(actual), <<"timestamp">>)
NormalizedExpected ==
    Delete(StripExpected(ForceVersion(DefaultId(expected, context)), cfg), <<"timestamp">>)

\* both timestamps read as ISO 8601 name one instant
SameInstant ==
    /\ HasField(expected, "timestamp")
    /\ moment(Text(Sub(expected, <<"timestamp">>)), utcOffset) # {}
    /\ moment(Text(Sub(expected, <<"timestamp">>)), utcOffset)
         = moment(Text(Sub(actual, <<"timestamp">>)), utcOffset)

TimestampsAgree == ~HasField(expected, "timestamp") \/ SameInstant

\* the normalized trees na and ne are equal but for an objectType that only
\* na carries on the sub-record at p
OnlyActualHasType(p, na, ne) ==
    /\ p \in DOMAIN na
    /\ na[p] = Obj
    /\ TypeAt(p) \in DOMAIN na
    /\ TypeAt(p) \notin DOMAIN ne
    /\ Delete(na, TypeAt(p)) = ne

\* C1: assertStatementNoMatch completes exactly when assertStatementMatch
\* raises on fresh copies of the same inputs, and the other way round: of the
\* two calls exactly one raises.
C1_Complement ==
    (Done(matchRun) /\ Done(noMatchRun))
        => ((matchRun.error = "none") # (noMatchRun.error = "none"))

CarriesLRSFields(r) ==
    /\ HasField(r, "id")
    /\ Sub(r, <<"version">>) = Leaf(Str("1.0.0"))
    /\ ~HasField(r, "stored")
    /\ ~HasField(r, "authority")

\* r has an object, holds no null, and its timestamp, if any, is a date-time
WellFormed(r) ==
    /\ HasField(r, "object")
    /\ \A p \in DOMAIN r : r[p] # Null
    /\ HasField(r, "timestamp") =>
          /\ Len(Text(Sub(r, <<"timestamp">>))) > 5
          /\ moment(Text(Sub(r, <<"timestamp">>)), utcOffset) # {}

C3_ActualTypeReconciled ==
    Done(matchRun) =>
        LET na == NormalizedActual
            ne == NormalizedExpected
        IN  \A p \in KnownPaths :
                (OnlyActualHasType(p, na, ne) /\ TimestampsAgree)
                    => matchRun.error = "none"

\* C4: where expected carries an objectType on a sub-record at a known
\* location and the actual sub-record carries none, the call changes neither
\* objectType and assertStatementMatch raises an assertion failure.
C4_OneDirectional ==
    Done(matchRun) =>
        \A p \in KnownPaths :
            (/\ TypeAt(p) \in DOMAIN expected
             /\ p \in DOMAIN actual /\ actual[p] = Obj
             /\ TypeAt(p) \notin DOMAIN actual)
            => /\ Sub(matchRun.expected, TypeAt(p)) = Sub(expected, TypeAt(p))
               /\ TypeAt(p) \notin DOMAIN matchRun.actual
               /\ matchRun.error = "AssertionError"

\* C5: the scenario of spec section 8 (neither tree has an id or a version)
\* matches in full mode.
C5_Scenario ==
    (/\ Done(matchRun) /\ ~cfg.meaningOnly
     /\ expected = ScenarioExpected
     /\ actual = ScenarioActual(undefined, undefined))
        => matchRun.error = "none"

\* C5 as amended: the scenario matches in full mode exactly when actual also
\* carries the tracked id and version "1.0.0".
C5_ScenarioAmended ==
    (/\ Done(matchRun) /\ ~cfg.meaningOnly
     /\ expected = ScenarioExpected
     /\ \E id \in IdOpts, version \in VersionOpts : actual = ScenarioActual(id, version))
        => (matchRun.error = "none"
               <=> actual = ScenarioActual(TrackedId, Leaf(Str("1.0.0"))))

C5_Witness ==
    /\ Done(matchRun) /\ ~cfg.meaningOnly
    /\ expected = ScenarioExpected
    /\ actual = ScenarioActual(TrackedId, Leaf(Str("1.0.0")))
    /\ matchRun.error = "none"

Strip3(t) == Delete(Delete(Delete(t, <<"version">>), <<"stored">>), <<"authority">>)

\* the two trees differ at most in version, stored and authority
OnlyLRSFieldsDiffer == Strip3(actual) = Strip3(expected)

\* C6: a pair of trees with an id that differs only in version, stored or
\* authority (on either side) matches in meaning-only mode; in full mode a
\* pair in which expected carries stored or authority, or actual's version is
\* not "1.0.0", does not match.
C6_MeaningOnly ==
    (Done(matchRun) /\ OnlyLRSFieldsDiffer)
        => /\ (cfg.meaningOnly /\ HasField(actual, "id")) => matchRun.error = "none"
           /\ (/\ ~cfg.meaningOnly
               /\ \/ HasField(expected, "stored")
                  \/ HasField(expected, "authority")
                  \/ Sub(actual, <<"version">>) # Leaf(Str("1.0.0")))
                  => matchRun.error # "none"

\* C7: when expected.timestamp is defined and names the instant
\* actual.timestamp names, the timestamp check passes and both trees reach
\* the final assertion without a timestamp; when expected.timestamp is
\* undefined only actual.timestamp is removed.
C7_SameInstantStripped ==
    \A run \in {matchRun, noMatchRun} :
        (Done(run) /\ run.error # "TypeError")
            => /\ SameInstant =>
                     /\ ~HasField(run.actual, "timestamp")
                     /\ ~HasField(run.expected, "timestamp")
               /\ ~HasField(expected, "timestamp") =>
                     /\ ~HasField(run.actual, "timestamp")
                     /\ ~HasField(run.expected, "timestamp")

\* C8: correctObjectTypes never raises, so a comparison surfaces nothing but
\* assertion failures.
C8_OnlyAssertionFailures ==
    \A run \in {matchRun, noMatchRun} :
        Done(run) => run.error \in {"none", "AssertionError"}

\* C9: expected.id is the tracked id when expected had none on entry and is
\* left alone otherwise, actual.id is never changed, and a fixture without an
\* id matches only an actual whose id is the tracked id.
C9_IdDefault ==
    /\ \A run \in {matchRun, noMatchRun} :
          Done(run) =>
              /\ Sub(run.expected, <<"id">>)
                    = IF HasField(expected, "id") THEN Sub(expected, <<"id">>)
                      ELSE TrackedId
              /\ Sub(run.actual, <<"id">>) = Sub(actual, <<"id">>)
    /\ (Done(matchRun) /\ ~HasField(expected, "id") /\ matchRun.error = "none")
          => Sub(actual, <<"id">>) = TrackedId

C9_Witness ==
    /\ Done(matchRun) /\ Done(noMatchRun)
    /\ ~HasField(expected, "id")
    /\ context.scenarioResource.id = "s2"
    /\ Sub(matchRun.expected, <<"id">>) = Leaf(Str("s2"))
    /\ matchRun.error = "none"

IsSubStatement(t) == Sub(t, <<"object", "objectType">>) = Leaf(Str("SubStatement"))

\* the known locations of the object, and a location one level further down
ObjectKnownPaths ==
    { <<"object", "actor">>, <<"object", "object">>,
      <<"object", "context", "instructor">>, <<"object", "actor", "member", "0">> }
DeepPaths == { <<"object", "object", "actor">> }

\* C10: correctObjectTypes runs once on the statements and once more on the
\* objects exactly when the object's objectType is "SubStatement", never
\* deeper: an objectType only actual carries at a known location of a
\* SubStatement object is reconciled, the same inside another object or two
\* levels down is a mismatch.
C10_OneLevelDeep ==
    /\ \A run \in {matchRun, noMatchRun} :
          Done(run) =>
              /\ run.calls \in {<<"statement">>, <<"statement", "object">>}
              /\ (run.calls = <<"statement", "object">>) <=> IsSubStatement(actual)
    /\ Done(matchRun) =>
          LET na == NormalizedActual
              ne == NormalizedExpected
          IN  /\ \A p \in ObjectKnownPaths :
                    OnlyActualHasType(p, na, ne) =>
                        (matchRun.error = "none" <=> IsSubStatement(actual))
              /\ \A p \in DeepPaths :
                    OnlyActualHasType(p, na, ne) => matchRun.error # "none"

====
